---------------------------- MODULE Spec2Model ----------------------------
(***************************************************************************)
(* Model of the database access layer of Yeremi528/laboratorio            *)
(* (business/data/dbsql/pgx/pgx.go): the three executors RunQuery,         *)
(* RunQuerySlice and RunCUD, and the bootstrap Open with its StatusCheck.  *)
(*                                                                         *)
(* ParseQuery of the same file, maskPhone (foundation/mask/maskers.go) and *)
(* the shutdown signalling of web.App (foundation/web/web.go) with run()   *)
(* of the service's main package are modelled too.                         *)
(*                                                                         *)
(* The specifications share the variables:                                 *)
(*   SpecExec      one executor call at a time against a driver whose      *)
(*                 answer (error, or rows that scan or fail to scan) is     *)
(*                 chosen freely;                                           *)
(*   SpecOpen      Open, or a direct StatusCheck, against a server whose    *)
(*                 pings and round-trip query succeed or fail freely, with  *)
(*                 time in whole seconds; FairSpecOpen adds the progress    *)
(*                 of the running goroutine;                                *)
(*   SpecParse     ParseQuery applied to bounded queries and arguments;     *)
(*   SpecMask      maskPhone applied to bounded phone strings;              *)
(*   SpecWeb       concurrent requests, OS signals and run()'s select on    *)
(*                 the shutdown channel.                                    *)
(***************************************************************************)
EXTENDS Integers, Sequences, FiniteSets, TLC

VARIABLES
    \* ---- executors -----------------------------------------------------
    epc,          \* position of the executor call: idle, rq_next, rq_scan, rqs_next, rqs_scan, done
    op,           \* the executor being called
    qerr,         \* the error NamedQueryContext / NamedExecContext returned
    rows,         \* the rows the cursor yields, each [val, ok] (ok: StructScan succeeds)
    pos,          \* number of rows.Next() calls that returned true
    scanned,      \* indices of the rows StructScan was called on
    dest1,        \* RunQuery: the caller's destination
    dest1Before,  \* RunQuery: its value at the call
    destS,        \* RunQuerySlice: the caller's *dest
    destSBefore,  \* RunQuerySlice: its value at the call
    slice,        \* RunQuerySlice: the local accumulator
    affected,     \* RunCUD: rows affected reported by the driver (discarded by the code)
    ret,          \* the error the executor returned
    cursorsOpen,  \* row cursors opened and not yet closed
    \* ---- Open / StatusCheck --------------------------------------------
    opc,          \* position of Open / StatusCheck
    caller,       \* who runs StatusCheck: Open, or a direct caller
    cfg,          \* the Config given to Open
    target,       \* RawQuery of the connection URL, as built by Open
    poolsOpened,  \* calls of sqlx.Open that produced a pool
    pings,        \* calls of db.PingContext
    queries,      \* round-trip queries sent
    clock,        \* seconds since the call started
    hadDeadline,  \* whether the context given to StatusCheck carried a deadline
    deadline,     \* deadline of the context StatusCheck works with
    cancelled,    \* the caller cancelled the context before its deadline
    attempts,     \* the loop counter of StatusCheck
    pingError,    \* the last result of PingContext
    slowPing,     \* some ping took time
    scRet,        \* what StatusCheck returned
    retDb,        \* the handle Open returned: "nil" or "db"
    retErr,       \* the error Open returned
    \* ---- ParseQuery -----------------------------------------------------
    ppc,          \* position of the ParseQuery call: idle, done
    pQuery,       \* the query given to ParseQuery
    pArgs,        \* the values its placeholders are bound to, and whether the names resolve
    pExpanded,    \* the query after the placeholder loop
    pOut,         \* the string ParseQuery returned
    \* ---- maskPhone ------------------------------------------------------
    mpc,          \* position of the maskPhone call: idle, done
    mValue,       \* the phone number given to maskPhone
    mOut,         \* the string it returned
    mPanic,       \* whether the call panicked
    \* ---- web.App --------------------------------------------------------
    shutdownCh,   \* the buffered shutdown channel
    mainPc,       \* position of run(): select, shutdown, exited
    rpc,          \* position of each request goroutine: idle, send, done
    rerr,         \* the error each request's handler returned
    sent          \* signals each request has sent on the channel

execVars == <<epc, op, qerr, rows, pos, scanned, dest1, dest1Before, destS,
              destSBefore, slice, affected, ret, cursorsOpen>>

openVars == <<opc, caller, cfg, target, poolsOpened, pings, queries, clock,
              hadDeadline, deadline, cancelled, attempts, pingError, slowPing,
              scRet, retDb, retErr>>

parseVars == <<ppc, pQuery, pArgs, pExpanded, pOut>>

maskVars == <<mpc, mValue, mOut, mPanic>>

webVars == <<shutdownCh, mainPc, rpc, rerr, sent>>

vars == <<execVars, openVars, parseVars, maskVars, webVars>>

-----------------------------------------------------------------------------
(* Bounds of the model. *)

\* most rows a cursor yields
MaxRows == 3
\* most rows a mutation reports as affected
MaxAffected == 1
\* latest deadline of a context handed directly to StatusCheck
MaxCtxDeadline == 7
\* longest a single ping takes, in seconds
MaxPingDur == 1
\* most tokens of a query given to ParseQuery
MaxQueryLen == 3
\* most characters of a phone number given to maskPhone
MaxPhoneLen == 7
\* request goroutines that can run at the same time
NumRequests == 3

-----------------------------------------------------------------------------
(* Errors.  An error is a record: its kind, the SQLSTATE code when it is   *)
(* a *pgconn.PgError, and the kinds of the errors it wraps (%w).           *)

uniqueViolation == "23505"
undefinedTable == "42P01"
\* some other SQLSTATE (query_canceled)
otherCode == "57014"

NoErr == [kind |-> "nil", code |-> "", wraps |-> {}]

Sentinel(k) == [kind |-> k, code |-> "", wraps |-> {}]

PgError(c) == [kind |-> "PgError", code |-> c, wraps |-> {}]

ErrDBNotFound == Sentinel("sql: no rows in result set")
ErrDBDuplicatedEntry == Sentinel("duplicated entry")
ErrUndefinedTable == Sentinel("undefined table")

\* a driver error that is no *pgconn.PgError (bind error, broken connection)
DriverOther == Sentinel("driver: bad connection")
\* the error of a StructScan that fails
ScanErr == Sentinel("scan error")

\* fmt.Errorf with %w verbs: a new error wrapping errs
Errorf(msg, errs) ==
    [kind |-> msg, code |-> "", wraps |-> UNION {{e.kind} \cup e.wraps : e \in errs}]

\* errors.Is against the error of kind k
ErrorsIs(e, k) == e.kind = k \/ k \in e.wraps

\* what the driver can answer to a query or a statement
DriverErrors == {PgError(uniqueViolation), PgError(undefinedTable),
                 PgError(otherCode), DriverOther}

-----------------------------------------------------------------------------
(* Executors: RunQuery, RunQuerySlice, RunCUD. *)

\* the values a row can map to
RowVals == {"a", "b"}

Row == [val : RowVals, ok : BOOLEAN]

RowSeqs == UNION {[1..n -> Row] : n \in 0..MaxRows}

\* zero value of a destination, and a destination holding earlier data
ZeroVal == "zero"
StaleVal == "stale"
\* a destination StructScan left half written
PartialVal == "partial"

ExecInit ==
    /\ epc = "idle"
    /\ op = "none"
    /\ qerr = NoErr
    /\ rows = <<>>
    /\ pos = 0
    /\ scanned = {}
    /\ dest1 = ZeroVal
    /\ dest1Before = ZeroVal
    /\ destS = <<>>
    /\ destSBefore = <<>>
    /\ slice = <<>>
    /\ affected = 0
    /\ ret = NoErr
    /\ cursorsOpen = 0

\* pgx.go:120-125 and 147-152: the translation of a query error
QueryErrTranslate(err) ==
    IF err.kind = "PgError" /\ err.code = undefinedTable
    THEN ErrUndefinedTable
    ELSE err

\* a plausible slip: the two codes swapped
CUDErrTranslateSwapped(err) ==
    IF err.kind = "PgError"
    THEN CASE err.code = undefinedTable -> ErrDBDuplicatedEntry
           [] err.code = uniqueViolation -> ErrUndefinedTable
           [] OTHER -> err
    ELSE err

\* pgx.go:171-179: the translation of a statement error
CUDErrTranslate(err) ==
    IF err.kind = "PgError"
    THEN CASE err.code = undefinedTable -> ErrUndefinedTable
           [] err.code = uniqueViolation -> ErrDBDuplicatedEntry
           [] OTHER -> err
    ELSE err

\* pgx.go:114-126: RunQuery up to the deferred Close
RunQueryCall(e, rs, d0) ==
    /\ epc = "idle"
    /\ op' = "RunQuery"
    /\ qerr' = e
    /\ dest1' = d0
    /\ dest1Before' = d0
    /\ pos' = 0
    /\ scanned' = {}
    /\ IF e # NoErr
       THEN /\ ret' = QueryErrTranslate(e)
            /\ rows' = <<>>
            /\ epc' = "done"
            /\ UNCHANGED cursorsOpen
       ELSE /\ rows' = rs
            /\ cursorsOpen' = cursorsOpen + 1
            /\ epc' = "rq_next"
            /\ UNCHANGED ret
    /\ UNCHANGED <<destS, destSBefore, slice, affected>>
    /\ UNCHANGED <<openVars, parseVars, maskVars, webVars>>

\* a plausible slip: an empty result is not reported
RunQueryNextNoCheck ==
    /\ epc = "rq_next"
    /\ IF pos < Len(rows)
       THEN /\ pos' = pos + 1
            /\ epc' = "rq_scan"
            /\ UNCHANGED <<ret, cursorsOpen>>
       ELSE /\ ret' = NoErr
            /\ cursorsOpen' = cursorsOpen - 1
            /\ epc' = "done"
            /\ UNCHANGED pos
    /\ UNCHANGED <<op, qerr, rows, scanned, dest1, dest1Before, destS,
                   destSBefore, slice, affected>>
    /\ UNCHANGED <<openVars, parseVars, maskVars, webVars>>

\* pgx.go:128-130: rows.Next(); no row is ErrDBNotFound (the deferred Close runs)
RunQueryNext ==
    /\ epc = "rq_next"
    /\ IF pos < Len(rows)
       THEN /\ pos' = pos + 1
            /\ epc' = "rq_scan"
            /\ UNCHANGED <<ret, cursorsOpen>>
       ELSE /\ ret' = ErrDBNotFound
            /\ cursorsOpen' = cursorsOpen - 1
            /\ epc' = "done"
            /\ UNCHANGED pos
    /\ UNCHANGED <<op, qerr, rows, scanned, dest1, dest1Before, destS,
                   destSBefore, slice, affected>>
    /\ UNCHANGED <<openVars, parseVars, maskVars, webVars>>

\* a plausible slip: the cursor is closed by hand on the success path only
RunQueryScanLeaks ==
    /\ epc = "rq_scan"
    /\ scanned' = scanned \cup {pos}
    /\ IF rows[pos].ok
       THEN /\ dest1' = rows[pos].val
            /\ ret' = NoErr
            /\ cursorsOpen' = cursorsOpen - 1
       ELSE /\ dest1' \in {dest1, PartialVal}
            /\ ret' = ScanErr
            /\ UNCHANGED cursorsOpen
    /\ epc' = "done"
    /\ UNCHANGED <<op, qerr, rows, pos, dest1Before, destS, destSBefore, slice,
                   affected>>
    /\ UNCHANGED <<openVars, parseVars, maskVars, webVars>>

\* pgx.go:132-136: StructScan of the current row into dest, then return.
\* A failing scan may have written part of dest before it failed.
RunQueryScan ==
    /\ epc = "rq_scan"
    /\ scanned' = scanned \cup {pos}
    /\ IF rows[pos].ok
       THEN /\ dest1' = rows[pos].val
            /\ ret' = NoErr
       ELSE /\ dest1' \in {dest1, PartialVal}
            /\ ret' = ScanErr
    /\ cursorsOpen' = cursorsOpen - 1
    /\ epc' = "done"
    /\ UNCHANGED <<op, qerr, rows, pos, dest1Before, destS, destSBefore, slice,
                   affected>>
    /\ UNCHANGED <<openVars, parseVars, maskVars, webVars>>

\* pgx.go:141-155: RunQuerySlice up to the loop
RunQuerySliceCall(e, rs, d0) ==
    /\ epc = "idle"
    /\ op' = "RunQuerySlice"
    /\ qerr' = e
    /\ destS' = d0
    /\ destSBefore' = d0
    /\ pos' = 0
    /\ scanned' = {}
    /\ slice' = <<>>
    /\ IF e # NoErr
       THEN /\ ret' = QueryErrTranslate(e)
            /\ rows' = <<>>
            /\ epc' = "done"
            /\ UNCHANGED cursorsOpen
       ELSE /\ rows' = rs
            /\ cursorsOpen' = cursorsOpen + 1
            /\ epc' = "rqs_next"
            /\ UNCHANGED ret
    /\ UNCHANGED <<dest1, dest1Before, affected>>
    /\ UNCHANGED <<openVars, parseVars, maskVars, webVars>>

\* pgx.go:156 and 163-165: rows.Next(); after the last row *dest = slice
RunQuerySliceNext ==
    /\ epc = "rqs_next"
    /\ IF pos < Len(rows)
       THEN /\ pos' = pos + 1
            /\ epc' = "rqs_scan"
            /\ UNCHANGED <<destS, ret, cursorsOpen>>
       ELSE /\ destS' = slice
            /\ ret' = NoErr
            /\ cursorsOpen' = cursorsOpen - 1
            /\ epc' = "done"
            /\ UNCHANGED pos
    /\ UNCHANGED <<op, qerr, rows, scanned, dest1, dest1Before, destSBefore,
                   slice, affected>>
    /\ UNCHANGED <<openVars, parseVars, maskVars, webVars>>

\* a plausible slip: each row put in front of the ones before it
RunQuerySliceScanPrepend ==
    /\ epc = "rqs_scan"
    /\ scanned' = scanned \cup {pos}
    /\ IF rows[pos].ok
       THEN /\ slice' = <<rows[pos].val>> \o slice
            /\ epc' = "rqs_next"
            /\ UNCHANGED <<ret, cursorsOpen>>
       ELSE /\ ret' = ScanErr
            /\ cursorsOpen' = cursorsOpen - 1
            /\ epc' = "done"
            /\ UNCHANGED slice
    /\ UNCHANGED <<op, qerr, rows, pos, dest1, dest1Before, destS, destSBefore,
                   affected>>
    /\ UNCHANGED <<openVars, parseVars, maskVars, webVars>>

\* a plausible slip: rows appended straight to the caller's slice
RunQuerySliceScanInPlace ==
    /\ epc = "rqs_scan"
    /\ scanned' = scanned \cup {pos}
    /\ IF rows[pos].ok
       THEN /\ slice' = Append(slice, rows[pos].val)
            /\ destS' = Append(slice, rows[pos].val)
            /\ epc' = "rqs_next"
            /\ UNCHANGED <<ret, cursorsOpen>>
       ELSE /\ ret' = ScanErr
            /\ cursorsOpen' = cursorsOpen - 1
            /\ epc' = "done"
            /\ UNCHANGED <<slice, destS>>
    /\ UNCHANGED <<op, qerr, rows, pos, dest1, dest1Before, destSBefore,
                   affected>>
    /\ UNCHANGED <<openVars, parseVars, maskVars, webVars>>

\* pgx.go:157-162: StructScan into a fresh T, append to the local slice
RunQuerySliceScan ==
    /\ epc = "rqs_scan"
    /\ scanned' = scanned \cup {pos}
    /\ IF rows[pos].ok
       THEN /\ slice' = Append(slice, rows[pos].val)
            /\ epc' = "rqs_next"
            /\ UNCHANGED <<ret, cursorsOpen>>
       ELSE /\ ret' = ScanErr
            /\ cursorsOpen' = cursorsOpen - 1
            /\ epc' = "done"
            /\ UNCHANGED slice
    /\ UNCHANGED <<op, qerr, rows, pos, dest1, dest1Before, destS, destSBefore,
                   affected>>
    /\ UNCHANGED <<openVars, parseVars, maskVars, webVars>>

\* pgx.go:169-183: RunCUD; the driver's result (rows affected) is dropped
RunCUD(e, n) ==
    /\ epc = "idle"
    /\ op' = "RunCUD"
    /\ qerr' = e
    /\ affected' = IF e = NoErr THEN n ELSE 0
    /\ ret' = IF e # NoErr THEN CUDErrTranslate(e) ELSE NoErr
    /\ epc' = "done"
    /\ UNCHANGED <<rows, pos, scanned, dest1, dest1Before, destS, destSBefore,
                   slice, cursorsOpen>>
    /\ UNCHANGED <<openVars, parseVars, maskVars, webVars>>

\* the executor has returned; the caller goes on to its next call
ExecReturn ==
    /\ epc = "done"
    /\ epc' = "idle"
    /\ op' = "none"
    /\ qerr' = NoErr
    /\ rows' = <<>>
    /\ pos' = 0
    /\ scanned' = {}
    /\ dest1' = ZeroVal
    /\ dest1Before' = ZeroVal
    /\ destS' = <<>>
    /\ destSBefore' = <<>>
    /\ slice' = <<>>
    /\ affected' = 0
    /\ ret' = NoErr
    /\ UNCHANGED cursorsOpen
    /\ UNCHANGED <<openVars, parseVars, maskVars, webVars>>

-----------------------------------------------------------------------------
(* Open and StatusCheck.  A string is a sequence of tokens, each a run of  *)
(* unreserved characters or one reserved character.                        *)

\* pgx.go:89: the timeout Open gives the status check, in seconds
OpenTimeout == 5
\* pgx.go:190: the timeout StatusCheck imposes on a context without deadline
DefaultTimeout == 5

EmptyStr == <<>>

\* certificate paths a Config can carry: none, an absolute path, a name with a space
CertPaths == {EmptyStr, <<"/", "certs", "/", "c.pem">>, <<"my", " ", "key">>}

Schemas == {EmptyStr, <<"lab">>}

\* pgx.go:32-47: the fields of Config that shape the connection target
Configs == [EnableTLS : BOOLEAN, CACert : CertPaths, ClientCert : CertPaths,
            ClientKey : CertPaths, Schema : Schemas, ApplicationName : {<<"lab", " ", "api">>}]

ErrSSLConfig == Sentinel("SSL certificates not properly configured")
ErrOpen == Sentinel("sqlx.Open failed")
ErrPing == Sentinel("ping failed")
ErrRoundTrip == Sentinel("round trip failed")
ErrCanceled == Sentinel("context canceled")
ErrDeadlineExceeded == Sentinel("context deadline exceeded")

\* a plausible slip: && for ||, so one certificate is enough
getSSLModeAnyCert(c) ==
    IF ~c.EnableTLS
    THEN [mode |-> <<"disable">>, err |-> NoErr]
    ELSE IF c.CACert = EmptyStr /\ c.ClientCert = EmptyStr /\ c.ClientKey = EmptyStr
         THEN [mode |-> EmptyStr, err |-> ErrSSLConfig]
         ELSE [mode |-> <<"require">>, err |-> NoErr]

\* pgx.go:100-110
getSSLMode(c) ==
    IF ~c.EnableTLS
    THEN [mode |-> <<"disable">>, err |-> NoErr]
    ELSE IF c.CACert = EmptyStr \/ c.ClientCert = EmptyStr \/ c.ClientKey = EmptyStr
         THEN [mode |-> EmptyStr, err |-> ErrSSLConfig]
         ELSE [mode |-> <<"require">>, err |-> NoErr]

\* a plausible slip: the key parameter set from the client certificate
QueryValuesKeySlip(c, sslMode) ==
    LET keys == {"sslmode", "timezone", "application_name"}
                \cup (IF c.EnableTLS THEN {"sslrootcert", "sslcert", "sslkey"} ELSE {})
                \cup (IF c.Schema # EmptyStr THEN {"search_path"} ELSE {})
    IN  [k \in keys |->
            CASE k = "sslmode" -> sslMode
              [] k = "timezone" -> <<"utc">>
              [] k = "application_name" -> c.ApplicationName
              [] k = "sslrootcert" -> c.CACert
              [] k = "sslcert" -> c.ClientCert
              [] k = "sslkey" -> c.ClientCert
              [] k = "search_path" -> c.Schema]

\* pgx.go:56-69: the url.Values Open fills
QueryValues(c, sslMode) ==
    LET keys == {"sslmode", "timezone", "application_name"}
                \cup (IF c.EnableTLS THEN {"sslrootcert", "sslcert", "sslkey"} ELSE {})
                \cup (IF c.Schema # EmptyStr THEN {"search_path"} ELSE {})
    IN  [k \in keys |->
            CASE k = "sslmode" -> sslMode
              [] k = "timezone" -> <<"utc">>
              [] k = "application_name" -> c.ApplicationName
              [] k = "sslrootcert" -> c.CACert
              [] k = "sslcert" -> c.ClientCert
              [] k = "sslkey" -> c.ClientKey
              [] k = "search_path" -> c.Schema]

\* url.QueryEscape of one token
EscapeToken(t) ==
    CASE t = "/" -> "%2F"
      [] t = " " -> "+"
      [] OTHER -> t

\* url.QueryEscape, as q.Encode() applies it to every value (pgx.go:76)
QueryEscape(s) == [i \in 1..Len(s) |-> EscapeToken(s[i])]

\* url.QueryUnescape of one token: what the reader of the target undoes
UnescapeToken(t) ==
    CASE t = "%2F" -> "/"
      [] t = "+" -> " "
      [] OTHER -> t

QueryUnescape(s) == [i \in 1..Len(s) |-> UnescapeToken(s[i])]

\* the keys of the target, in the order Encode sorts them
KeyOrder == <<"application_name", "search_path", "sslcert", "sslkey", "sslmode",
              "sslrootcert", "timezone">>

\* pgx.go:76: q.Encode(): key=value pairs sorted by key, values escaped
Encode(q) ==
    LET ks == SelectSeq(KeyOrder, LAMBDA k : k \in DOMAIN q)
    IN  [i \in 1..Len(ks) |-> <<ks[i], QueryEscape(q[ks[i]])>>]

\* the values the target carries for key k, unescaped
Param(t, k) == {QueryUnescape(t[i][2]) : i \in {j \in 1..Len(t) : t[j][1] = k}}

OpenInit ==
    /\ opc = "idle"
    /\ caller = "none"
    /\ cfg = [EnableTLS |-> FALSE, CACert |-> EmptyStr, ClientCert |-> EmptyStr,
              ClientKey |-> EmptyStr, Schema |-> EmptyStr,
              ApplicationName |-> <<"lab", " ", "api">>]
    /\ target = <<>>
    /\ poolsOpened = 0
    /\ pings = 0
    /\ queries = 0
    /\ clock = 0
    /\ hadDeadline = FALSE
    /\ deadline = -1
    /\ cancelled = FALSE
    /\ attempts = 0
    /\ pingError = NoErr
    /\ slowPing = FALSE
    /\ scRet = NoErr
    /\ retDb = "nil"
    /\ retErr = NoErr

\* ctx.Err() at time t
CtxErr(t) ==
    IF cancelled THEN ErrCanceled
    ELSE IF deadline >= 0 /\ t >= deadline THEN ErrDeadlineExceeded
    ELSE NoErr

\* pgx.go:50-77: Open validates the TLS material and builds the connection target
OpenBuild(c) ==
    /\ opc = "idle"
    /\ caller' = "Open"
    /\ cfg' = c
    /\ LET r == getSSLMode(c)
       IN  IF r.err # NoErr
           THEN /\ retDb' = "nil"
                /\ retErr' = r.err
                /\ target' = <<>>
                /\ opc' = "done"
           ELSE /\ target' = Encode(QueryValues(c, r.mode))
                /\ opc' = "open_pool"
                /\ UNCHANGED <<retDb, retErr>>
    /\ UNCHANGED <<poolsOpened, pings, queries, clock, hadDeadline, deadline,
                   cancelled, attempts, pingError, slowPing, scRet>>
    /\ UNCHANGED <<execVars, parseVars, maskVars, webVars>>

\* pgx.go:79-91: sqlx.Open (no connection yet), pool sizing, the 5 s context
OpenPool(ok) ==
    /\ opc = "open_pool"
    /\ IF ~ok
       THEN /\ retDb' = "nil"
            /\ retErr' = ErrOpen
            /\ opc' = "done"
            /\ UNCHANGED <<poolsOpened, hadDeadline, deadline>>
       ELSE /\ poolsOpened' = poolsOpened + 1
            /\ hadDeadline' = TRUE
            /\ deadline' = clock + OpenTimeout
            /\ opc' = "sc_entry"
            /\ UNCHANGED <<retDb, retErr>>
    /\ UNCHANGED <<caller, cfg, target, pings, queries, clock, cancelled,
                   attempts, pingError, slowPing, scRet>>
    /\ UNCHANGED <<execVars, parseVars, maskVars, webVars>>

\* a caller other than Open calls StatusCheck with its own context
StatusCheckCall(hd, d) ==
    /\ opc = "idle"
    /\ caller' = "direct"
    /\ hadDeadline' = hd
    /\ deadline' = IF hd THEN d ELSE -1
    /\ opc' = "sc_entry"
    /\ UNCHANGED <<cfg, target, poolsOpened, pings, queries, clock, cancelled,
                   attempts, pingError, slowPing, scRet, retDb, retErr>>
    /\ UNCHANGED <<execVars, parseVars, maskVars, webVars>>

\* the direct caller cancels its context while the check runs
CancelCtx ==
    /\ caller = "direct"
    /\ opc \in {"sc_entry", "sc_ping", "sc_sleep", "sc_post"}
    /\ ~cancelled
    /\ CtxErr(clock) = NoErr
    /\ cancelled' = TRUE
    /\ UNCHANGED <<opc, caller, cfg, target, poolsOpened, pings, queries, clock,
                   hadDeadline, deadline, attempts, pingError, slowPing, scRet,
                   retDb, retErr>>
    /\ UNCHANGED <<execVars, parseVars, maskVars, webVars>>

\* pgx.go:188-195: the default deadline, and the loop starts at attempts = 1
SCEntry ==
    /\ opc = "sc_entry"
    /\ deadline' = IF hadDeadline THEN deadline ELSE clock + DefaultTimeout
    /\ attempts' = 1
    /\ opc' = "sc_ping"
    /\ UNCHANGED <<caller, cfg, target, poolsOpened, pings, queries, clock,
                   hadDeadline, cancelled, pingError, slowPing, scRet, retDb,
                   retErr>>
    /\ UNCHANGED <<execVars, parseVars, maskVars, webVars>>

\* pgx.go:196-199: db.PingContext(ctx).  A done context fails the ping at once;
\* a ping still running at the deadline is aborted there.
SCPing(ok, dur) ==
    /\ opc = "sc_ping"
    /\ pings' = pings + 1
    /\ IF CtxErr(clock) # NoErr
       THEN /\ dur = 0
            /\ pingError' = CtxErr(clock)
            /\ UNCHANGED <<clock, slowPing>>
       ELSE IF clock + dur > deadline
       THEN /\ pingError' = ErrDeadlineExceeded
            /\ clock' = deadline
            /\ slowPing' = TRUE
       ELSE /\ pingError' = IF ok THEN NoErr ELSE ErrPing
            /\ clock' = clock + dur
            /\ slowPing' = (slowPing \/ dur > 0)
    /\ opc' = IF pingError' = NoErr THEN "sc_post" ELSE "sc_sleep"
    /\ UNCHANGED <<caller, cfg, target, poolsOpened, queries, hadDeadline,
                   deadline, cancelled, attempts, scRet, retDb, retErr>>
    /\ UNCHANGED <<execVars, parseVars, maskVars, webVars>>

\* a plausible slip: the cause is dropped from the error
SCSleepDropsCause ==
    /\ opc = "sc_sleep"
    /\ clock' = clock + attempts
    /\ IF CtxErr(clock') # NoErr
       THEN /\ scRet' = Errorf("database", {CtxErr(clock')})
            /\ opc' = "sc_ret"
            /\ UNCHANGED attempts
       ELSE /\ attempts' = attempts + 1
            /\ opc' = "sc_ping"
            /\ UNCHANGED scRet
    /\ UNCHANGED <<caller, cfg, target, poolsOpened, pings, queries,
                   hadDeadline, deadline, cancelled, pingError, slowPing, retDb,
                   retErr>>
    /\ UNCHANGED <<execVars, parseVars, maskVars, webVars>>

\* a plausible slip: a constant one-second backoff
SCSleepConstant ==
    /\ opc = "sc_sleep"
    /\ clock' = clock + 1
    /\ IF CtxErr(clock') # NoErr
       THEN /\ scRet' = Errorf("database", {CtxErr(clock'), pingError})
            /\ opc' = "sc_ret"
            /\ UNCHANGED attempts
       ELSE /\ attempts' = attempts + 1
            /\ opc' = "sc_ping"
            /\ UNCHANGED scRet
    /\ UNCHANGED <<caller, cfg, target, poolsOpened, pings, queries,
                   hadDeadline, deadline, cancelled, pingError, slowPing, retDb,
                   retErr>>
    /\ UNCHANGED <<execVars, parseVars, maskVars, webVars>>

\* pgx.go:200-204: time.Sleep(attempts seconds), which no context interrupts,
\* then ctx.Err(); attempts++ when the loop goes on
SCSleep ==
    /\ opc = "sc_sleep"
    /\ clock' = clock + attempts
    /\ IF CtxErr(clock') # NoErr
       THEN /\ scRet' = Errorf("database", {CtxErr(clock'), pingError})
            /\ opc' = "sc_ret"
            /\ UNCHANGED attempts
       ELSE /\ attempts' = attempts + 1
            /\ opc' = "sc_ping"
            /\ UNCHANGED scRet
    /\ UNCHANGED <<caller, cfg, target, poolsOpened, pings, queries,
                   hadDeadline, deadline, cancelled, pingError, slowPing, retDb,
                   retErr>>
    /\ UNCHANGED <<execVars, parseVars, maskVars, webVars>>

\* a plausible slip: the query is sent without looking at the context again
SCPostNoCtxCheck(ok) ==
    /\ opc = "sc_post"
    /\ queries' = queries + 1
    /\ scRet' = IF ok THEN NoErr ELSE ErrRoundTrip
    /\ opc' = "sc_ret"
    /\ UNCHANGED <<caller, cfg, target, poolsOpened, pings, clock, hadDeadline,
                   deadline, cancelled, attempts, pingError, slowPing, retDb,
                   retErr>>
    /\ UNCHANGED <<execVars, parseVars, maskVars, webVars>>

\* pgx.go:206-214: ctx.Err() once more, then the round-trip query
SCPost(ok) ==
    /\ opc = "sc_post"
    /\ IF CtxErr(clock) # NoErr
       THEN /\ scRet' = CtxErr(clock)
            /\ UNCHANGED queries
       ELSE /\ queries' = queries + 1
            /\ scRet' = IF ok THEN NoErr ELSE ErrRoundTrip
    /\ opc' = "sc_ret"
    /\ UNCHANGED <<caller, cfg, target, poolsOpened, pings, clock, hadDeadline,
                   deadline, cancelled, attempts, pingError, slowPing, retDb,
                   retErr>>
    /\ UNCHANGED <<execVars, parseVars, maskVars, webVars>>

\* StatusCheck returns to a direct caller
SCReturn ==
    /\ opc = "sc_ret"
    /\ caller = "direct"
    /\ opc' = "done"
    /\ UNCHANGED <<caller, cfg, target, poolsOpened, pings, queries, clock,
                   hadDeadline, deadline, cancelled, attempts, pingError,
                   slowPing, scRet, retDb, retErr>>
    /\ UNCHANGED <<execVars, parseVars, maskVars, webVars>>

\* a plausible slip: the handle is returned together with the error
OpenReturnKeepsHandle ==
    /\ opc = "sc_ret"
    /\ caller = "Open"
    /\ retDb' = "db"
    /\ retErr' = IF scRet # NoErr
                 THEN Errorf("database status check", {scRet})
                 ELSE NoErr
    /\ opc' = "done"
    /\ UNCHANGED <<caller, cfg, target, poolsOpened, pings, queries, clock,
                   hadDeadline, deadline, cancelled, attempts, pingError,
                   slowPing, scRet>>
    /\ UNCHANGED <<execVars, parseVars, maskVars, webVars>>

\* pgx.go:93-97: StatusCheck returns to Open, which returns the handle or the
\* wrapped error (the pool it opened is dropped, not closed)
OpenReturn ==
    /\ opc = "sc_ret"
    /\ caller = "Open"
    /\ IF scRet # NoErr
       THEN /\ retDb' = "nil"
            /\ retErr' = Errorf("database status check", {scRet})
       ELSE /\ retDb' = "db"
            /\ retErr' = NoErr
    /\ opc' = "done"
    /\ UNCHANGED <<caller, cfg, target, poolsOpened, pings, queries, clock,
                   hadDeadline, deadline, cancelled, attempts, pingError,
                   slowPing, scRet>>
    /\ UNCHANGED <<execVars, parseVars, maskVars, webVars>>

\* the call is over; the next one starts from a fresh process state
OpenDone ==
    /\ opc = "done"
    /\ opc' = "idle"
    /\ caller' = "none"
    /\ cfg' = [EnableTLS |-> FALSE, CACert |-> EmptyStr, ClientCert |-> EmptyStr,
               ClientKey |-> EmptyStr, Schema |-> EmptyStr,
               ApplicationName |-> <<"lab", " ", "api">>]
    /\ target' = <<>>
    /\ poolsOpened' = 0
    /\ pings' = 0
    /\ queries' = 0
    /\ clock' = 0
    /\ hadDeadline' = FALSE
    /\ deadline' = -1
    /\ cancelled' = FALSE
    /\ attempts' = 0
    /\ pingError' = NoErr
    /\ slowPing' = FALSE
    /\ scRet' = NoErr
    /\ retDb' = "nil"
    /\ retErr' = NoErr
    /\ UNCHANGED <<execVars, parseVars, maskVars, webVars>>

-----------------------------------------------------------------------------
(* ParseQuery.  A query is a sequence of tokens: a named placeholder, a    *)
(* word, or one white-space character.  sqlx.Named turns each placeholder  *)
(* into "?" and lists the bound values in the order of the placeholders.   *)

Placeholder == ":n"

QueryTokens == {Placeholder, "sel", " ", "\t", "\n", "\r"}

Queries == UNION {[1..n -> QueryTokens] : n \in 0..MaxQueryLen}

\* bound values: their Go type and their text
ParamVals == {[type |-> "string", text |-> <<"abc">>],
              [type |-> "string", text |-> <<"a", "?">>],
              [type |-> "bytes", text |-> <<"raw">>],
              [type |-> "uuid", text |-> <<"6ba7b810">>],
              [type |-> "int", text |-> <<"7">>]}

PlaceholderCount(q) == Cardinality({i \in 1..Len(q) : q[i] = Placeholder})

ParseInit ==
    /\ ppc = "idle"
    /\ pQuery = <<>>
    /\ pArgs = [vals |-> <<>>, resolves |-> TRUE]
    /\ pExpanded = <<>>
    /\ pOut = <<>>

\* pgx.go:219: sqlx.Named(query, args)
Named(q, a) ==
    [query |-> [i \in 1..Len(q) |-> IF q[i] = Placeholder THEN "?" ELSE q[i]],
     params |-> a.vals,
     err |-> ~a.resolves]

\* the text of the error sqlx.Named returns
NamedErrText == <<"could not find name">>

\* pgx.go:225-235: the text a bound value is rendered to
Render(p) ==
    IF p.type \in {"string", "bytes", "uuid"}
    THEN <<"'">> \o p.text \o <<"'">>
    ELSE p.text

\* pgx.go:236: strings.Replace(query, "?", value, 1)
ReplaceFirst(q, v) ==
    LET idx == {i \in 1..Len(q) : q[i] = "?"}
    IN  IF idx = {}
        THEN q
        ELSE LET i == CHOOSE k \in idx : \A j \in idx : k <= j
             IN  SubSeq(q, 1, i - 1) \o v \o SubSeq(q, i + 1, Len(q))

RECURSIVE ExpandParams(_, _)
\* pgx.go:224-237: the loop over params
ExpandParams(q, ps) ==
    IF ps = <<>>
    THEN q
    ELSE ExpandParams(ReplaceFirst(q, Render(Head(ps))), Tail(ps))

\* strings.Trim(query, " ")
TrimSpaces(q) ==
    LET idx == {i \in 1..Len(q) : q[i] # " "}
    IN  IF idx = {}
        THEN <<>>
        ELSE SubSeq(q, CHOOSE k \in idx : \A j \in idx : k <= j,
                       CHOOSE k \in idx : \A j \in idx : k >= j)

\* strings.ReplaceAll(query, "\t", "")
DeleteTabs(q) == SelectSeq(q, LAMBDA t : t # "\t")

\* strings.ReplaceAll(query, "\n", " ")
NewlinesToSpaces(q) == [i \in 1..Len(q) |-> IF q[i] = "\n" THEN " " ELSE q[i]]

\* a plausible slip: trimmed before the newlines become spaces
NormalizeTrimFirst(q) == NewlinesToSpaces(DeleteTabs(TrimSpaces(q)))

\* pgx.go:239-242
Normalize(q) == TrimSpaces(NewlinesToSpaces(DeleteTabs(q)))

\* pgx.go:218-243: ParseQuery
ParseQueryCall(q, a) ==
    /\ ppc = "idle"
    /\ pQuery' = q
    /\ pArgs' = a
    /\ LET n == Named(q, a)
       IN  IF n.err
           THEN /\ pExpanded' = <<>>
                /\ pOut' = NamedErrText
           ELSE /\ pExpanded' = ExpandParams(n.query, n.params)
                /\ pOut' = Normalize(pExpanded')
    /\ ppc' = "done"
    /\ UNCHANGED <<execVars, openVars, maskVars, webVars>>

\* the caller has the string; the next call starts afresh
ParseReturn ==
    /\ ppc = "done"
    /\ ppc' = "idle"
    /\ pQuery' = <<>>
    /\ pArgs' = [vals |-> <<>>, resolves |-> TRUE]
    /\ pExpanded' = <<>>
    /\ pOut' = <<>>
    /\ UNCHANGED <<execVars, openVars, maskVars, webVars>>

-----------------------------------------------------------------------------
(* maskPhone. *)

PhoneChars == {"+", "5", "6"}

Phones == UNION {[1..n -> PhoneChars] : n \in 0..MaxPhoneLen}

MaskInit ==
    /\ mpc = "idle"
    /\ mValue = <<>>
    /\ mOut = <<>>
    /\ mPanic = FALSE

\* strings.Index(s, "+"): the 0-based place of the first "+", or -1
IndexPlus(s) ==
    LET idx == {i \in 1..Len(s) : s[i] = "+"}
    IN  IF idx = {} THEN -1 ELSE (CHOOSE k \in idx : \A j \in idx : k <= j) - 1

\* strings.Repeat("*", n)
Stars(n) == [i \in 1..n |-> "*"]

Panicked == [panic |-> TRUE, out |-> <<>>]

\* maskers.go:41-55: the result of maskPhone, or the panic of a slice
\* expression out of range (42, 48, 49) or of a negative Repeat count (52)
maskPhone(value) ==
    IF Len(value) < 1
    THEN Panicked
    ELSE LET found == IndexPlus(Tail(value)) + 6
             countryCodeLen == IF found < 1 THEN 1 ELSE found
         IN  IF countryCodeLen > Len(value)
             THEN Panicked
             ELSE IF Len(value) - 2 < 0
             THEN Panicked
             ELSE IF Len(value) - countryCodeLen - 1 < 0
             THEN Panicked
             ELSE [panic |-> FALSE,
                   out |-> SubSeq(value, 1, countryCodeLen)
                           \o Stars(Len(value) - countryCodeLen - 1)
                           \o SubSeq(value, Len(value) - 1, Len(value))]

\* a call of maskPhone
MaskPhoneCall(v) ==
    /\ mpc = "idle"
    /\ mValue' = v
    /\ mOut' = maskPhone(v).out
    /\ mPanic' = maskPhone(v).panic
    /\ mpc' = "done"
    /\ UNCHANGED <<execVars, openVars, parseVars, webVars>>

\* the call is over
MaskReturn ==
    /\ mpc = "done"
    /\ mpc' = "idle"
    /\ mValue' = <<>>
    /\ mOut' = <<>>
    /\ mPanic' = FALSE
    /\ UNCHANGED <<execVars, openVars, parseVars, webVars>>

-----------------------------------------------------------------------------
(* web.App and run(). *)

\* part_001:186: make(chan os.Signal, 1)
ShutdownCap == 1

Reqs == 1..NumRequests

EPIPE == Sentinel("EPIPE")
ECONNRESET == Sentinel("ECONNRESET")
\* an error that is neither of the two
ErrIntegrity == Sentinel("integrity issue")

\* what a handler can return: nil, the two errnos bare or wrapped, another error
HandlerErrs == {NoErr, EPIPE, ECONNRESET, Errorf("write response", {EPIPE}),
                ErrIntegrity}

WebInit ==
    /\ shutdownCh = <<>>
    /\ mainPc = "select"
    /\ rpc = [r \in Reqs |-> "idle"]
    /\ rerr = [r \in Reqs |-> NoErr]
    /\ sent = [r \in Reqs |-> <<>>]

\* web.go:86-122
validateShutdown(err) ==
    CASE ErrorsIs(err, EPIPE.kind) -> FALSE
      [] ErrorsIs(err, ECONNRESET.kind) -> FALSE
      [] OTHER -> TRUE

\* web.go:67-78: a request runs its handler, which returns e; the goroutine
\* goes on to SignalShutdown or returns
Request(r, e) ==
    /\ mainPc = "select"
    /\ rpc[r] = "idle"
    /\ rerr' = [rerr EXCEPT ![r] = e]
    /\ rpc' = [rpc EXCEPT ![r] = IF e # NoErr /\ validateShutdown(e)
                                 THEN "send" ELSE "done"]
    /\ UNCHANGED <<shutdownCh, mainPc, sent>>
    /\ UNCHANGED <<execVars, openVars, parseVars, maskVars>>

\* web.go:39-41 and 75-76: a.shutdown <- syscall.SIGTERM, a send that waits
\* for room in the channel, then the request returns
SignalShutdown(r) ==
    /\ mainPc # "exited"
    /\ rpc[r] = "send"
    /\ Len(shutdownCh) < ShutdownCap
    /\ shutdownCh' = Append(shutdownCh, "SIGTERM")
    /\ sent' = [sent EXCEPT ![r] = Append(@, "SIGTERM")]
    /\ rpc' = [rpc EXCEPT ![r] = "done"]
    /\ UNCHANGED <<mainPc, rerr>>
    /\ UNCHANGED <<execVars, openVars, parseVars, maskVars>>

\* the request goroutine is gone; its slot serves the next request
RequestEnd(r) ==
    /\ mainPc # "exited"
    /\ rpc[r] = "done"
    /\ rpc' = [rpc EXCEPT ![r] = "idle"]
    /\ rerr' = [rerr EXCEPT ![r] = NoErr]
    /\ sent' = [sent EXCEPT ![r] = <<>>]
    /\ UNCHANGED <<shutdownCh, mainPc>>
    /\ UNCHANGED <<execVars, openVars, parseVars, maskVars>>

\* part_001:187: signal.Notify delivers SIGINT / SIGTERM without blocking;
\* a signal that finds the channel full is dropped
OSSignal(sig) ==
    /\ mainPc # "exited"
    /\ Len(shutdownCh) < ShutdownCap
    /\ shutdownCh' = Append(shutdownCh, sig)
    /\ UNCHANGED <<mainPc, rpc, rerr, sent>>
    /\ UNCHANGED <<execVars, openVars, parseVars, maskVars>>

\* part_001:209-215: run() receives from shutdown, once
MainRecvShutdown ==
    /\ mainPc = "select"
    /\ shutdownCh # <<>>
    /\ shutdownCh' = Tail(shutdownCh)
    /\ mainPc' = "shutdown"
    /\ UNCHANGED <<rpc, rerr, sent>>
    /\ UNCHANGED <<execVars, openVars, parseVars, maskVars>>

\* part_001:210-211: run() receives a server error and returns
MainServerError ==
    /\ mainPc = "select"
    /\ mainPc' = "exited"
    /\ UNCHANGED <<shutdownCh, rpc, rerr, sent>>
    /\ UNCHANGED <<execVars, openVars, parseVars, maskVars>>

\* part_001:217-226: api.Shutdown returns, the requests idle or the
\* ShutdownTimeout over, and run() returns: the process ends
MainShutdownDone ==
    /\ mainPc = "shutdown"
    /\ mainPc' = "exited"
    /\ UNCHANGED <<shutdownCh, rpc, rerr, sent>>
    /\ UNCHANGED <<execVars, openVars, parseVars, maskVars>>

-----------------------------------------------------------------------------
(* Specifications. *)

Init == ExecInit /\ OpenInit /\ ParseInit /\ MaskInit /\ WebInit

\* values the caller's destinations hold at a call
Dest1Inits == {ZeroVal, StaleVal}
DestSInits == {<<>>, <<StaleVal>>}

ExecNext ==
    \/ \E e \in DriverErrors \cup {NoErr}, rs \in RowSeqs, d0 \in Dest1Inits :
          (e # NoErr => rs = <<>>) /\ RunQueryCall(e, rs, d0)
    \/ RunQueryNext
    \/ RunQueryScan
    \/ \E e \in DriverErrors \cup {NoErr}, rs \in RowSeqs, d0 \in DestSInits :
          (e # NoErr => rs = <<>>) /\ RunQuerySliceCall(e, rs, d0)
    \/ RunQuerySliceNext
    \/ RunQuerySliceScan
    \/ \E e \in DriverErrors \cup {NoErr}, n \in 0..MaxAffected : RunCUD(e, n)
    \/ ExecReturn

SpecExec == Init /\ [][ExecNext]_vars

\* the steps of the goroutine running StatusCheck
SCStep ==
    \/ SCEntry
    \/ \E ok \in BOOLEAN, dur \in 0..MaxPingDur : SCPing(ok, dur)
    \/ SCSleep
    \/ \E ok \in BOOLEAN : SCPost(ok)
    \/ SCReturn
    \/ OpenReturn

OpenNext ==
    \/ \E c \in Configs : OpenBuild(c)
    \/ \E ok \in BOOLEAN : OpenPool(ok)
    \/ \E hd \in BOOLEAN, d \in 0..MaxCtxDeadline :
          (~hd => d = 0) /\ StatusCheckCall(hd, d)
    \/ CancelCtx
    \/ SCStep
    \/ OpenDone

SpecOpen == Init /\ [][OpenNext]_vars

\* the goroutine in StatusCheck is scheduled: each of its steps, once enabled,
\* is eventually taken (PingContext, time.Sleep and the query all return)
FairSpecOpen == Init /\ [][OpenNext]_vars /\ WF_vars(SCStep)

ParseNext ==
    \/ /\ ppc = "idle"
       /\ \E q \in Queries, res \in BOOLEAN :
             \E vs \in [1..PlaceholderCount(q) -> ParamVals] :
                ParseQueryCall(q, [vals |-> vs, resolves |-> res])
    \/ ParseReturn

SpecParse == Init /\ [][ParseNext]_vars

MaskNext ==
    \/ /\ mpc = "idle"
       /\ \E v \in Phones : MaskPhoneCall(v)
    \/ MaskReturn

SpecMask == Init /\ [][MaskNext]_vars

WebNext ==
    \/ \E r \in Reqs, e \in HandlerErrs : Request(r, e)
    \/ \E r \in Reqs : SignalShutdown(r)
    \/ \E r \in Reqs : RequestEnd(r)
    \/ \E sig \in {"SIGINT", "SIGTERM"} : OSSignal(sig)
    \/ MainRecvShutdown
    \/ MainServerError
    \/ MainShutdownDone

SpecWeb == Init /\ [][WebNext]_vars

-----------------------------------------------------------------------------
(* Properties of the executors (SpecExec). *)

RunQueryReturned == epc = "done" /\ op = "RunQuery"
RunQuerySliceReturned == epc = "done" /\ op = "RunQuerySlice"
RunCUDReturned == epc = "done" /\ op = "RunCUD"

AllRowsScan == \A i \in 1..Len(rows) : rows[i].ok

\* C1 as stated: whenever the query itself succeeds, RunQuery returns
\* ErrDBNotFound and leaves dest alone on zero rows, and on one or more rows
\* fills dest from the first row, scans no other row and returns nil.
C1_RunQueryAsStated ==
    (RunQueryReturned /\ qerr = NoErr) =>
        IF Len(rows) = 0
        THEN ret = ErrDBNotFound /\ dest1 = dest1Before /\ scanned = {}
        ELSE ret = NoErr /\ dest1 = rows[1].val /\ scanned = {1}

\* C1 as amended: the same, with "returns nil and dest holds the first row"
\* only when the first row scans; when it fails to scan, RunQuery returns the
\* scan error, still having scanned the first row only.
C1_RunQuerySingleRow ==
    (RunQueryReturned /\ qerr = NoErr) =>
        IF Len(rows) = 0
        THEN ret = ErrDBNotFound /\ dest1 = dest1Before /\ scanned = {}
        ELSE /\ scanned = {1}
             /\ rows[1].ok => (ret = NoErr /\ dest1 = rows[1].val)
             /\ ~rows[1].ok => ret = ScanErr

C1_Witness ==
    /\ RunQueryReturned
    /\ qerr = NoErr
    /\ Len(rows) >= 2
    /\ rows[1].ok
    /\ rows[2].val # rows[1].val
    /\ dest1Before = StaleVal
    /\ dest1 = rows[1].val
    /\ ret = NoErr

\* C2: when the query succeeds and every row scans, RunQuerySlice returns nil
\* and *dest holds exactly the rows' values, in the cursor's order (the empty
\* sequence for zero rows).
C2_RunQuerySliceAllRows ==
    (RunQuerySliceReturned /\ qerr = NoErr /\ AllRowsScan) =>
        /\ ret = NoErr
        /\ destS = [i \in 1..Len(rows) |-> rows[i].val]

C2_Witness ==
    /\ RunQuerySliceReturned
    /\ qerr = NoErr
    /\ AllRowsScan
    /\ Len(rows) >= 2
    /\ rows[1].val # rows[2].val
    /\ destSBefore = <<StaleVal>>
    /\ Len(destS) = Len(rows)

\* C3: while RunQuerySlice runs, and after it returned a non-nil error, the
\* caller's slice is what it was at the call: no partial result is visible.
C3_DestReplacedOnlyOnSuccess ==
    (op = "RunQuerySlice" /\ (epc \in {"rqs_next", "rqs_scan"}
                               \/ (epc = "done" /\ ret # NoErr))) =>
        destS = destSBefore

C3_Witness ==
    /\ RunQuerySliceReturned
    /\ ret = ScanErr
    /\ Len(slice) >= 1
    /\ destSBefore = <<StaleVal>>
    /\ destS = destSBefore

\* C4: RunCUD turns a PgError 23505 into ErrDBDuplicatedEntry and a PgError
\* 42P01 into ErrUndefinedTable, returns any other error as it is, and returns
\* nil for a statement that executed, whatever the number of affected rows.
C4_RunCUDErrors ==
    RunCUDReturned =>
        /\ qerr = PgError(uniqueViolation) => ret = ErrDBDuplicatedEntry
        /\ qerr = PgError(undefinedTable) => ret = ErrUndefinedTable
        /\ (qerr # NoErr /\ qerr \notin {PgError(uniqueViolation), PgError(undefinedTable)})
              => ret = qerr
        /\ qerr = NoErr => ret = NoErr

C4_Witness ==
    /\ RunCUDReturned
    /\ qerr = PgError(uniqueViolation)
    /\ ret = ErrDBDuplicatedEntry

\* C5 as stated: whichever executor ran, a driver error with the uniqueness code
\* comes back as ErrDBDuplicatedEntry and one with the undefined-table code as
\* ErrUndefinedTable.
C5_EveryExecutorTranslates ==
    (epc = "done" /\ op \in {"RunQuery", "RunQuerySlice", "RunCUD"}) =>
        /\ qerr = PgError(uniqueViolation) => ret = ErrDBDuplicatedEntry
        /\ qerr = PgError(undefinedTable) => ret = ErrUndefinedTable

\* C11: whenever no executor is running (before a call, and after RunQuery,
\* RunQuerySlice or RunCUD returned on any path) no row cursor is open, and a
\* running call holds at most the one cursor it opened.
C11_CursorsReleased ==
    /\ epc \in {"idle", "done"} => cursorsOpen = 0
    /\ cursorsOpen <= 1

C11_Witness ==
    /\ epc = "done"
    /\ op = "RunQuery"
    /\ qerr = NoErr
    /\ ret = ScanErr
    /\ scanned = {1}
    /\ cursorsOpen = 0

-----------------------------------------------------------------------------
(* Properties of Open and StatusCheck (SpecOpen, FairSpecOpen). *)

TLSComplete(c) ==
    c.EnableTLS /\ c.CACert # EmptyStr /\ c.ClientCert # EmptyStr /\ c.ClientKey # EmptyStr

TLSIncomplete(c) ==
    c.EnableTLS /\ (c.CACert = EmptyStr \/ c.ClientCert = EmptyStr \/ c.ClientKey = EmptyStr)

\* C6: the target Open built carries sslmode=disable and no certificate
\* parameter when TLS is off, and sslmode=require with the three certificate
\* parameters set to the configured paths when TLS is on and complete.
C6_TargetSSLParams ==
    (caller = "Open" /\ ~TLSIncomplete(cfg)) =>
        IF ~cfg.EnableTLS
        THEN /\ Param(target, "sslmode") = {<<"disable">>}
             /\ Param(target, "sslrootcert") = {}
             /\ Param(target, "sslcert") = {}
             /\ Param(target, "sslkey") = {}
        ELSE /\ Param(target, "sslmode") = {<<"require">>}
             /\ Param(target, "sslrootcert") = {cfg.CACert}
             /\ Param(target, "sslcert") = {cfg.ClientCert}
             /\ Param(target, "sslkey") = {cfg.ClientKey}

C6_Witness ==
    /\ caller = "Open"
    /\ opc = "open_pool"
    /\ TLSComplete(cfg)
    /\ cfg.ClientCert # cfg.ClientKey
    /\ cfg.CACert # cfg.ClientCert
    /\ Param(target, "sslkey") = {cfg.ClientKey}

\* C7: an Open whose Config enables TLS with a certificate field empty is over
\* at once with a nil handle and the configuration error, and opens no pool,
\* pings nothing and sends no query.
C7_ConfigErrorBeforeNetwork ==
    (caller = "Open" /\ TLSIncomplete(cfg)) =>
        /\ opc = "done"
        /\ retDb = "nil"
        /\ retErr = ErrSSLConfig
        /\ poolsOpened = 0
        /\ pings = 0
        /\ queries = 0

C7_Witness ==
    /\ caller = "Open"
    /\ opc = "done"
    /\ cfg.EnableTLS
    /\ cfg.CACert # EmptyStr
    /\ cfg.ClientCert # EmptyStr
    /\ cfg.ClientKey = EmptyStr
    /\ retErr = ErrSSLConfig

InStatusCheck == opc \in {"sc_entry", "sc_ping", "sc_sleep", "sc_post"}

\* StatusCheck left its loop through the return of line 202: every ping failed
LeftByFailedPings == opc \in {"sc_ret", "done"} /\ pings > 0 /\ pingError # NoErr

WrapsCtxErr(e) ==
    ErrorsIs(e, ErrDeadlineExceeded.kind) \/ ErrorsIs(e, ErrCanceled.kind)

\* C8: StatusCheck gives a context without deadline the 5 s deadline; every
\* call of it returns; and when every ping failed what it returns wraps both
\* the context's error and the last ping's error.
C8_StatusCheckTerminates ==
    /\ []((opc \in {"sc_ping", "sc_sleep", "sc_post", "sc_ret"} /\ ~hadDeadline)
             => deadline = DefaultTimeout)
    /\ (InStatusCheck ~> opc = "done")
    /\ [](LeftByFailedPings =>
             /\ scRet.kind = "database"
             /\ WrapsCtxErr(scRet)
             /\ ErrorsIs(scRet, pingError.kind))

C8_Witness ==
    /\ opc = "done"
    /\ caller = "direct"
    /\ ~hadDeadline
    /\ ~cancelled
    /\ deadline = DefaultTimeout
    /\ pingError = ErrPing
    /\ ErrorsIs(scRet, ErrDeadlineExceeded.kind)
    /\ ErrorsIs(scRet, ErrPing.kind)

\* C9 as stated: with instantaneous pings, a StatusCheck working under the
\* default 5 s deadline (Open's, or the one it imposed itself) has returned no
\* later than that deadline.
C9_ReturnsByDeadline ==
    (/\ opc \in {"sc_ret", "done"}
     /\ pings > 0
     /\ ~slowPing
     /\ (caller = "Open" \/ ~hadDeadline)) =>
        clock <= deadline

\* C10: Open returns the handle with a nil error, and then StatusCheck pinged,
\* sent its query and returned nil, or a nil handle with an error; when
\* StatusCheck failed the handle is nil and the error wraps that of the check.
C10_OpenHandleOrError ==
    (opc = "done" /\ caller = "Open") =>
        /\ \/ /\ retDb = "db"
              /\ retErr = NoErr
              /\ poolsOpened = 1
              /\ pings >= 1
              /\ pingError = NoErr
              /\ queries = 1
              /\ scRet = NoErr
           \/ /\ retDb = "nil"
              /\ retErr # NoErr
        /\ scRet # NoErr =>
              /\ retDb = "nil"
              /\ retErr.kind = "database status check"
              /\ ErrorsIs(retErr, scRet.kind)
              /\ scRet.wraps \subseteq retErr.wraps

C10_Witness ==
    /\ opc = "done"
    /\ caller = "Open"
    /\ poolsOpened = 1
    /\ scRet = ErrRoundTrip
    /\ retDb = "nil"
    /\ ErrorsIs(retErr, ErrRoundTrip.kind)


StatusCheckReturned == opc \in {"sc_ret", "done"} /\ pings > 0

\* C16: the round-trip query is sent at most once, only after a ping succeeded
\* and the context was then found alive, and its error is returned as it is;
\* when the context was found done after the successful ping no query is sent
\* and the context's error alone is returned.
C16_QueryOnlyAfterPing ==
    /\ queries <= 1
    /\ queries = 1 =>
          /\ StatusCheckReturned
          /\ pingError = NoErr
          /\ CtxErr(clock) = NoErr
          /\ scRet \in {NoErr, ErrRoundTrip}
    /\ (StatusCheckReturned /\ pingError = NoErr /\ CtxErr(clock) # NoErr) =>
          /\ queries = 0
          /\ scRet = CtxErr(clock)
    /\ (StatusCheckReturned /\ pingError = NoErr /\ CtxErr(clock) = NoErr) =>
          queries = 1

C16_Witness ==
    /\ opc = "sc_ret"
    /\ caller = "direct"
    /\ pings >= 2
    /\ pingError = NoErr
    /\ cancelled
    /\ queries = 0
    /\ scRet = ErrCanceled

\* the deadline is the default one: Open's, or the one StatusCheck imposed
DefaultDeadline == caller = "Open" \/ (caller = "direct" /\ ~hadDeadline)

\* C17: the sleep after the k-th failed ping lasts k seconds and issues no
\* ping; after it StatusCheck returns when the context is done and goes to ping
\* k+1 otherwise.  Under the default 5 s deadline, with pings that all fail at
\* once and no cancellation, StatusCheck returns after exactly 3 pings.
C17_LinearBackoff ==
    /\ [][(opc = "sc_sleep" /\ opc' # "sc_sleep") =>
            /\ clock' = clock + pings
            /\ pings' = pings
            /\ IF cancelled \/ clock' >= deadline
               THEN opc' = "sc_ret"
               ELSE opc' = "sc_ping" /\ attempts' = pings + 1]_vars
    /\ [](opc = "sc_sleep" => attempts = pings /\ pingError # NoErr)
    /\ []((LeftByFailedPings /\ DefaultDeadline /\ ~slowPing /\ ~cancelled)
             => pings = 3)

C17_Witness ==
    /\ opc = "sc_ret"
    /\ caller = "Open"
    /\ pingError = ErrPing
    /\ ~slowPing
    /\ attempts = 3
    /\ pings = 3
    /\ clock = 6


-----------------------------------------------------------------------------
(* Properties of ParseQuery (SpecParse). *)

ParseReturned == ppc = "done" /\ pArgs.resolves

RECURSIVE Substitute(_, _)
\* the query with its i-th placeholder replaced by the rendering of the i-th value
Substitute(q, ps) ==
    IF q = <<>>
    THEN <<>>
    ELSE IF Head(q) = Placeholder
         THEN Render(Head(ps)) \o Substitute(Tail(q), Tail(ps))
         ELSE <<Head(q)>> \o Substitute(Tail(q), ps)

\* C12 as stated: after the placeholder loop the query is the given one with
\* its i-th placeholder replaced by the rendering of the i-th bound value,
\* whatever the values' text, a "?" included.
C12_PlaceholdersInOrder ==
    ParseReturned => pExpanded = Substitute(pQuery, pArgs.vals)

WhiteSpace == {" ", "\t", "\n", "\r"}

\* C13 as stated: the returned string holds no tab and no newline and neither
\* starts nor ends with a white-space character.
C13_TrimmedLineAsStated ==
    ParseReturned =>
        /\ \A i \in 1..Len(pOut) : pOut[i] \notin {"\t", "\n"}
        /\ pOut # <<>> => (pOut[1] \notin WhiteSpace /\ pOut[Len(pOut)] \notin WhiteSpace)

\* C13 as amended: the returned string holds no tab and no newline and neither
\* starts nor ends with a space; other white space (a carriage return) stays.
C13_TrimmedLine ==
    ParseReturned =>
        /\ \A i \in 1..Len(pOut) : pOut[i] \notin {"\t", "\n"}
        /\ pOut # <<>> => (pOut[1] # " " /\ pOut[Len(pOut)] # " ")

C13_Witness ==
    /\ ParseReturned
    /\ pQuery = <<"\n", "sel", "\t">>
    /\ pOut = <<"sel">>


-----------------------------------------------------------------------------
(* Properties of maskPhone (SpecMask). *)

LastFour(s) == SubSeq(s, Len(s) - 3, Len(s))

\* C15 as stated: for every phone string maskPhone returns without panicking,
\* its output is as long as its input and ends with the input's last four
\* characters.
C15_MaskPhoneKeepsLastFour ==
    mpc = "done" =>
        /\ ~mPanic
        /\ Len(mOut) = Len(mValue)
        /\ Len(mValue) >= 4 => LastFour(mOut) = LastFour(mValue)


-----------------------------------------------------------------------------
(* Properties of the shutdown signalling (SpecWeb). *)

\* a non-nil error that neither is nor wraps EPIPE or ECONNRESET
ShutdownWorthy(e) ==
    e # NoErr /\ ~ErrorsIs(e, EPIPE.kind) /\ ~ErrorsIs(e, ECONNRESET.kind)

\* a request waits in SignalShutdown on a full channel while run(), past its
\* select and in api.Shutdown, no longer reads it
Stuck(r) ==
    rpc[r] = "send" /\ Len(shutdownCh) = ShutdownCap /\ mainPc = "shutdown"

\* the handler of request r has returned and the request can do no more
Settled(r) == rpc[r] = "done" \/ Stuck(r)

\* C14 as stated: a request whose handler returned a non-nil error that
\* neither is nor wraps EPIPE or ECONNRESET has sent exactly one SIGTERM on the
\* shutdown channel, and a request whose handler returned nil or such an
\* errno has sent nothing.
C14_ShutdownSignalling ==
    \A r \in Reqs :
        Settled(r) =>
            sent[r] = IF ShutdownWorthy(rerr[r]) THEN <<"SIGTERM">> ELSE <<>>

\* C18 as stated: no request is ever left waiting in SignalShutdown for good:
\* every send on the shutdown channel can still complete and every request
\* returns.
C18_NoSenderBlockedForever ==
    \A r \in Reqs : rpc[r] = "send" => ~Stuck(r)
=============================================================================
